---- MODULE Spec2Model ----
(***************************************************************************)
(* Model of costoptimizationscript.py: the scheduled Lambda that scans the *)
(* EC2 instances, RDS databases and S3 buckets of the requested accounts,  *)
(* classifies instances and databases as underutilized from their P95 CPU  *)
(* datapoints, renders a PDF, uploads it and publishes an SNS summary.     *)
(*                                                                         *)
(* One run of lambda_handler is a walk of pc through the handler; every    *)
(* call to an AWS API is a step whose response is chosen by the            *)
(* environment.  Python None is the integer None (-1); CPU readings are    *)
(* non-negative integers (percent); an average is kept exact as the pair   *)
(* [num, den] and compared with the threshold by cross-multiplication.     *)
(***************************************************************************)
EXTENDS Integers, Sequences, FiniteSets, TLC

\* ------------------------------------------------------------------ bounds
MaxDatapoints == 2          \* longest Datapoints list one fetch returns

\* The alphabets the environment's responses are drawn from.
CallerAccount == "A1"                       \* sts.get_caller_identity()["Account"]
InstanceOrder == <<"i-1", "i-2">>           \* order describe_instances lists them
DBOrder       == <<"db-1">>                 \* order describe_db_instances lists them
BucketOrder   == <<"b-1">>                  \* order list_buckets lists them
Timestamps    == {1, 2}                     \* days since 1970-01-01: Friday, Saturday

\* Python None, where a number may be absent
None == -1

ExtVals       == {None, 0, 4, 12}           \* data['ExtendedStatistics']['p95.0'], None: no such key
TopVals       == {None, 4}                  \* data['p95.0'], None: no such key

\* ------------------------------------------------------- program constants
EC2_THRESHOLD    == 5
RDS_THRESHOLD    == 10
SNS_MAX_LEN      == 250000
SATURDAY         == 5

Range(s) == {s[i] : i \in 1..Len(s)}

RECURSIVE Sum(_)
Sum(s) == IF s = <<>> THEN 0 ELSE Head(s) + Sum(Tail(s))

\* ------------------------------------------------------------ pure helpers
\* datetime.weekday(): Monday is 0, Sunday is 6; day 0 (1970-01-01) is a Thursday.
Weekday(timestamp) == (timestamp + 3) % 7

is_weekend(timestamp) == Weekday(timestamp) >= SATURDAY

\* Python truthiness of an optional number: None and 0 are falsy.
Truthy(v) == v # None /\ v # 0

\* data.get('ExtendedStatistics', {}).get('p95.0') or data.get('p95.0')
P95(data) == IF Truthy(data.ext) THEN data.ext ELSE data.top

Readings(datapoints) == [i \in 1..Len(datapoints) |-> P95(datapoints[i])]

NotNone(v) == v # None

OnWeekday(data) == ~is_weekend(data.Timestamp)

OnWeekend(data) == is_weekend(data.Timestamp)

\* lines 123 and 127: the weekday readings, None values filtered out
weekday_usage(datapoints) == SelectSeq(Readings(SelectSeq(datapoints, OnWeekday)), NotNone)

\* lines 124 and 128
weekend_usage(datapoints) == SelectSeq(Readings(SelectSeq(datapoints, OnWeekend)), NotNone)

\* sum(usage) / len(usage) if usage else 0, kept as an exact fraction
Average(usage) ==
    IF usage # <<>> THEN [num |-> Sum(usage), den |-> Len(usage)]
                    ELSE [num |-> 0, den |-> 1]

Unassigned == [num |-> 0, den |-> 0]

\* avg < threshold
Below(avg, threshold) == avg.num < threshold * avg.den

UnderutilizedEither(weekday_avg, weekend_avg, threshold) ==
    Below(weekday_avg, threshold) \/ Below(weekend_avg, threshold)

\* line 136: weekday_avg < threshold and weekend_avg < threshold
Underutilized(weekday_avg, weekend_avg, threshold) ==
    Below(weekday_avg, threshold) /\ Below(weekend_avg, threshold)

Locals(datapoints, wd, we, wa, ea, verdict) ==
    [Datapoints |-> datapoints, weekday_usage |-> wd, weekend_usage |-> we,
     weekday_avg |-> wa, weekend_avg |-> ea, verdict |-> verdict]

\* The loop body with both `continue` guards lost.
ClassifyNoSkip(datapoints, threshold) ==
    LET wd == weekday_usage(datapoints)
        we == weekend_usage(datapoints)
    IN  Locals(datapoints, wd, we, Average(wd), Average(we),
               IF Underutilized(Average(wd), Average(we), threshold)
               THEN "flagged" ELSE "normal")

\* One iteration of the loop body, lines 120-137 (EC2) and 161-177 (RDS): the
\* local variables it leaves and how it ended.
Classify(datapoints, threshold) ==
    IF datapoints = <<>>
    THEN Locals(datapoints, <<>>, <<>>, Unassigned, Unassigned, "skip_no_datapoints")
    ELSE LET wd == weekday_usage(datapoints)
             we == weekend_usage(datapoints)
         IN  IF wd = <<>> /\ we = <<>>
             THEN Locals(datapoints, wd, we, Unassigned, Unassigned, "skip_no_values")
             ELSE Locals(datapoints, wd, we, Average(wd), Average(we),
                         IF Underutilized(Average(wd), Average(we), threshold)
                         THEN "flagged" ELSE "normal")

\* ---------------------------------------------------------- environment
Datapoint == [Timestamp : Timestamps, ext : ExtVals, top : TopVals]

DatapointLists == UNION {[1..n -> Datapoint] : n \in 0..MaxDatapoints}

\* get_percentile_metric, lines 87-98: either the call raises or it returns
\* response.get('Datapoints', []).  Line 93 evaluates datetime.datetime.utcnow()
\* while line 7 binds `datetime` to the class, which raises AttributeError; any
\* botocore error of get_metric_statistics raises as well.  Both are the
\* outcome raised = TRUE; the other outcomes are the function's return values.
FetchOutcomes ==
    {[raised |-> TRUE, Datapoints |-> <<>>]}
        \cup {[raised |-> FALSE, Datapoints |-> d] : d \in DatapointLists}

InstanceStates == {"running", "stopped"}
DBStatuses     == {"available", "stopped"}

Inventories(order, states) ==
    UNION {[ids -> states] : ids \in SUBSET Range(order)}

Listed(order, inv) == SelectSeq(order, LAMBDA id : id \in DOMAIN inv)

\* line 103: describe_instances(Filters=[instance-state-name = running])
describe_instances(inv) ==
    SelectSeq(Listed(InstanceOrder, inv), LAMBDA id : inv[id] = "running")

\* line 145: describe_db_instances() with no filter
describe_db_instances(inv) == Listed(DBOrder, inv)

LifecycleOutcomes == {"Rules", "NoRules", "NoSuchLifecycleConfiguration", "ClientError"}

\* get_s3_storage_savings, lines 183-201: the keys of `savings`, in order
get_s3_storage_savings(lifecycle) ==
    SelectSeq(Listed(BucketOrder, lifecycle), LAMBDA b : lifecycle[b] = "Rules")

\* ------------------------------------------------------------- the report
EC2_CATEGORY == "Underutilized EC2 Instances"
RDS_CATEGORY == "Underutilized RDS Databases"
S3_CATEGORY  == "S3 Storage Optimization"
CategoryOrder == <<EC2_CATEGORY, RDS_CATEGORY, S3_CATEGORY>>
Categories == Range(CategoryOrder)

RecommendationsNonEmptyOnly(ec2, rds, s3) ==
    LET all == [c \in Categories |->
                   IF c = EC2_CATEGORY THEN ec2 ELSE IF c = RDS_CATEGORY THEN rds ELSE s3]
    IN  [c \in {k \in Categories : all[k] # <<>>} |-> all[c]]

\* lines 254-258: the dict literal
Recommendations(ec2, rds, s3) ==
    [c \in Categories |->
        IF c = EC2_CATEGORY THEN ec2 ELSE IF c = RDS_CATEGORY THEN rds ELSE s3]

\* A Python dict as the sequence of its [key, value] items in insertion order.
DictHas(d, k) == \E i \in 1..Len(d) : d[i].key = k

\* line 259: all_recommendations[account_id] = recommendations
DictSet(d, k, v) ==
    IF DictHas(d, k)
    THEN [i \in 1..Len(d) |-> IF d[i].key = k THEN [key |-> k, value |-> v] ELSE d[i]]
    ELSE Append(d, [key |-> k, value |-> v])

\* The keys of a recommendations dict in insertion order.
Keys(details) == SelectSeq(CategoryOrder, LAMBDA c : c \in DOMAIN details)

RECURSIVE Concat(_)
Concat(ss) == IF ss = <<>> THEN <<>> ELSE Head(ss) \o Concat(Tail(ss))

Bullets(prefix, items) == [i \in 1..Len(items) |-> prefix \o items[i]]

\* lines 66-76 of generate_pdf_report: one category's cells
PdfCategory(category, items) ==
    <<category>> \o (IF items # <<>> THEN Bullets("- ", items)
                                     ELSE <<"- No optimizations found">>)

\* lines 61-76
PdfAccount(entry) ==
    <<"Account: " \o entry.key>>
        \o Concat([i \in 1..Len(Keys(entry.value)) |->
                     PdfCategory(Keys(entry.value)[i], entry.value[Keys(entry.value)[i]])])

\* generate_pdf_report, lines 52-80: the text cells of the document
generate_pdf_report(recommendations) ==
    <<"AWS Cost Optimization Report">>
        \o Concat([i \in 1..Len(recommendations) |-> PdfAccount(recommendations[i])])

\* lines 211-212: one element of the joined list.  `category, items` iterate
\* message.items(); joining `items` iterates the keys of that value.
MessageEntry(entry) ==
    IF DOMAIN entry.value # {}
    THEN <<entry.key \o ":">> \o Bullets("  - ", Keys(entry.value))
    ELSE <<entry.key \o ":", "  - No optimizations found">>

\* lines 207-213: formatted_message as its lines
FormattedLines(message) ==
    IF message = <<>>
    THEN <<"No cost optimization recommendations found.">>
    ELSE Concat([i \in 1..Len(message) |-> MessageEntry(message[i])])

\* len(formatted_message): the lines joined by "\n"
TextLen(lines) ==
    Sum([i \in 1..Len(lines) |-> Len(lines[i])]) + (IF lines = <<>> THEN 0 ELSE Len(lines) - 1)

RECURSIVE Cut(_, _)
\* The longest prefix of whole lines that fits in `room` characters.
Cut(lines, room) ==
    IF lines = <<>> \/ Len(Head(lines)) > room THEN <<>>
    ELSE <<Head(lines)>> \o Cut(Tail(lines), room - Len(Head(lines)) - 1)

\* lines 216-217 (a line the cut falls into is dropped whole)
Truncated(lines) ==
    IF TextLen(lines) > SNS_MAX_LEN
    THEN Cut(lines, SNS_MAX_LEN) \o <<"", "[Message Truncated]">>
    ELSE lines

\* send_notification, lines 204-231: the published message
send_notification(message, presigned_url) ==
    [Subject |-> "AWS Cost Optimization Recommendations",
     lines   |-> Truncated(FormattedLines(message)),
     link    |-> presigned_url]

\* ------------------------------------------------------------------ state
VARIABLES
    pc,                   \* where lambda_handler stands
    accounts,             \* line 238-246: the account ids to scan
    acct,                 \* index in accounts of the account being scanned
    all_recommendations,  \* line 248: dict account_id -> recommendations
    inventory,            \* the resources the current describe_* call looked at
    resources,            \* the ids the running loop iterates (describe_* result)
    idx,                  \* index in resources of the next iteration
    underutilized,        \* lines 104/146: the list the running loop builds
    ec2_result,           \* value of get_low_utilization_ec2(clients), line 255
    cur,                  \* the last iteration of the running loop: its resource and locals
    error,                \* the exception that ended the run, "" if none
    pdf,                  \* the document generate_pdf_report rendered (line 262)
    s3_key,               \* line 264
    presigned_url,        \* line 269, "" before
    published,            \* messages sns_client.publish received
    returned              \* value lambda_handler returned: <<>> or <<report>>

vars == <<pc, accounts, acct, all_recommendations, inventory, resources, idx,
          underutilized, ec2_result, cur, error, pdf, s3_key, presigned_url,
          published, returned>>

NoInventory == [id \in {} |-> ""]

NoCur == [kind |-> "none", id |-> "", threshold |-> 0, raised |-> FALSE,
          locals |-> Locals(<<>>, <<>>, <<>>, Unassigned, Unassigned, "none")]

\* The event's account_ids: absent, one id as a string, or a list of ids.
Events ==
    {[kind |-> "absent", ids |-> <<>>], [kind |-> "str", ids |-> <<"A2">>]}
        \cup {[kind |-> "list", ids |-> l] :
                l \in {<<>>, <<"A1">>, <<"A1", "A2">>, <<"A2", "A2">>}}

Init ==
    /\ pc = "idle"
    /\ accounts = <<>>
    /\ acct = 0
    /\ all_recommendations = <<>>
    /\ inventory = NoInventory
    /\ resources = <<>>
    /\ idx = 0
    /\ underutilized = <<>>
    /\ ec2_result = <<>>
    /\ cur = NoCur
    /\ error = ""
    /\ pdf = <<>>
    /\ s3_key = ""
    /\ presigned_url = ""
    /\ published = <<>>
    /\ returned = <<>>

\* An uncaught exception ends the invocation.
Raise(exc) ==
    /\ pc' = "crashed"
    /\ error' = exc

\* lines 238-248
Invoke ==
    /\ pc = "idle"
    /\ \E event \in Events :
         accounts' = IF event.ids = <<>> THEN <<CallerAccount>> ELSE event.ids
    /\ acct' = 1
    /\ all_recommendations' = <<>>
    /\ pc' = "assume_role"
    /\ UNCHANGED <<inventory, resources, idx, underutilized, ec2_result, cur, error,
                   pdf, s3_key, presigned_url, published, returned>>

\* lines 250-252: assume_role(account_id), lines 26-34, then get_clients
AssumeRole ==
    /\ pc = "assume_role"
    /\ \E granted \in BOOLEAN :
         IF granted
         THEN pc' = "describe_instances" /\ UNCHANGED error
         ELSE Raise("assume_role")
    /\ UNCHANGED <<accounts, acct, all_recommendations, inventory, resources, idx,
                   underutilized, ec2_result, cur, pdf, s3_key, presigned_url,
                   published, returned>>

\* lines 103-104
DescribeInstances ==
    /\ pc = "describe_instances"
    /\ \E inv \in Inventories(InstanceOrder, InstanceStates) :
         /\ inventory' = inv
         /\ resources' = describe_instances(inv)
    /\ idx' = 1
    /\ underutilized' = <<>>
    /\ cur' = NoCur
    /\ pc' = "ec2_loop"
    /\ UNCHANGED <<accounts, acct, all_recommendations, ec2_result, error, pdf,
                   s3_key, presigned_url, published, returned>>

\* One iteration of a loop over `resources`: the fetch, then the loop body.
Iteration(kind, threshold, body_done) ==
    /\ idx <= Len(resources)
    /\ \E outcome \in FetchOutcomes :
         IF outcome.raised
         THEN /\ Raise("get_percentile_metric")
              /\ cur' = [NoCur EXCEPT !.kind = kind, !.id = resources[idx],
                                      !.threshold = threshold, !.raised = TRUE]
              /\ UNCHANGED underutilized
         ELSE LET locals == Classify(outcome.Datapoints, threshold) IN
              /\ cur' = [kind |-> kind, id |-> resources[idx], threshold |-> threshold,
                         raised |-> FALSE, locals |-> locals]
              /\ underutilized' = IF locals.verdict = "flagged"
                                  THEN Append(underutilized, resources[idx])
                                  ELSE underutilized
              /\ pc' = body_done
              /\ UNCHANGED error
    /\ UNCHANGED <<accounts, acct, all_recommendations, inventory, resources, idx,
                   ec2_result, pdf, s3_key, presigned_url, published, returned>>

\* The `for` statement takes the next element; the locals of the finished
\* iteration are rebound.
NextIteration(body_done, loop) ==
    /\ pc = body_done
    /\ idx' = idx + 1
    /\ cur' = NoCur
    /\ pc' = loop
    /\ UNCHANGED <<accounts, acct, all_recommendations, inventory, resources,
                   underutilized, ec2_result, error, pdf, s3_key, presigned_url,
                   published, returned>>

\* lines 108-137: one instance
Ec2Iteration ==
    /\ pc = "ec2_loop"
    /\ Iteration("ec2", EC2_THRESHOLD, "ec2_next")

\* lines 106-107
Ec2NextInstance == NextIteration("ec2_next", "ec2_loop")

\* line 139, then lines 145-146
DescribeDBInstances ==
    /\ pc = "ec2_loop"
    /\ idx > Len(resources)
    /\ ec2_result' = underutilized
    /\ \E inv \in Inventories(DBOrder, DBStatuses) :
         /\ inventory' = inv
         /\ resources' = describe_db_instances(inv)
    /\ idx' = 1
    /\ underutilized' = <<>>
    /\ cur' = NoCur
    /\ pc' = "rds_loop"
    /\ UNCHANGED <<accounts, acct, all_recommendations, error, pdf, s3_key,
                   presigned_url, published, returned>>

\* lines 149-177: one database
RdsIteration ==
    /\ pc = "rds_loop"
    /\ Iteration("rds", RDS_THRESHOLD, "rds_next")

\* line 148
RdsNextDatabase == NextIteration("rds_next", "rds_loop")

\* line 179, get_s3_storage_savings (lines 183-201), lines 254-259 and the
\* step of the loop of line 250
S3StorageSavings ==
    /\ pc = "rds_loop"
    /\ idx > Len(resources)
    /\ \E lifecycle \in Inventories(BucketOrder, LifecycleOutcomes) :
         all_recommendations' =
             DictSet(all_recommendations, accounts[acct],
                     Recommendations(ec2_result, underutilized,
                                     get_s3_storage_savings(lifecycle)))
    /\ IF acct < Len(accounts)
       THEN acct' = acct + 1 /\ pc' = "assume_role"
       ELSE acct' = acct /\ pc' = "generate_pdf"
    /\ inventory' = NoInventory
    /\ resources' = <<>>
    /\ idx' = 0
    /\ underutilized' = <<>>
    /\ ec2_result' = <<>>
    /\ cur' = NoCur
    /\ UNCHANGED <<accounts, error, pdf, s3_key, presigned_url, published, returned>>

\* lines 262-264
GeneratePdf ==
    /\ pc = "generate_pdf"
    /\ pdf' = generate_pdf_report(all_recommendations)
    /\ s3_key' = "reports/" \o accounts[acct]
    /\ pc' = "upload_file"
    /\ UNCHANGED <<accounts, acct, all_recommendations, inventory, resources, idx,
                   underutilized, ec2_result, cur, error, presigned_url, published,
                   returned>>

\* line 265
UploadFile ==
    /\ pc = "upload_file"
    /\ \E stored \in BOOLEAN :
         IF stored
         THEN pc' = "generate_presigned_url" /\ UNCHANGED error
         ELSE Raise("upload_file")
    /\ UNCHANGED <<accounts, acct, all_recommendations, inventory, resources, idx,
                   underutilized, ec2_result, cur, pdf, s3_key, presigned_url,
                   published, returned>>

\* lines 269-273
GeneratePresignedUrl ==
    /\ pc = "generate_presigned_url"
    /\ \E signed \in BOOLEAN :
         IF signed
         THEN /\ presigned_url' = "https://" \o s3_key
              /\ pc' = "send_notification"
              /\ UNCHANGED error
         ELSE /\ Raise("generate_presigned_url")
              /\ UNCHANGED presigned_url
    /\ UNCHANGED <<accounts, acct, all_recommendations, inventory, resources, idx,
                   underutilized, ec2_result, cur, pdf, s3_key, published, returned>>

\* line 277
SendNotification ==
    /\ pc = "send_notification"
    /\ published' = Append(published, send_notification(all_recommendations, presigned_url))
    /\ pc' = "return"
    /\ UNCHANGED <<accounts, acct, all_recommendations, inventory, resources, idx,
                   underutilized, ec2_result, cur, error, pdf, s3_key, presigned_url,
                   returned>>

\* lines 278-280
Return ==
    /\ pc = "return"
    /\ pdf' = generate_pdf_report(all_recommendations)
    /\ returned' = <<all_recommendations>>
    /\ pc' = "done"
    /\ UNCHANGED <<accounts, acct, all_recommendations, inventory, resources, idx,
                   underutilized, ec2_result, cur, error, s3_key, presigned_url,
                   published>>

Next ==
    \/ Invoke
    \/ AssumeRole
    \/ DescribeInstances
    \/ Ec2Iteration
    \/ Ec2NextInstance
    \/ DescribeDBInstances
    \/ RdsIteration
    \/ RdsNextDatabase
    \/ S3StorageSavings
    \/ GeneratePdf
    \/ UploadFile
    \/ GeneratePresignedUrl
    \/ SendNotification
    \/ Return

Spec == Init /\ [][Next]_vars

\* ------------------------------------------------------------------ claims
\* The last iteration ran its loop body to the end (the fetch returned).
Fetched == cur.kind # "none" /\ ~cur.raised

\* The last iteration reached the threshold comparison of line 136 / 176.
Compared == Fetched /\ cur.locals.verdict \in {"flagged", "normal"}

DefaultThreshold(kind) == IF kind = "ec2" THEN EC2_THRESHOLD ELSE RDS_THRESHOLD

IsListed == cur.id \in Range(underutilized)

\* A datapoint's value as CloudWatch reported it: the ExtendedStatistics entry,
\* else the top-level entry, else missing.  A reading of 0 is a value.
Value(data) == IF data.ext # None THEN data.ext ELSE data.top

PresentValues(datapoints, weekend) ==
    SelectSeq([i \in 1..Len(datapoints) |-> IF is_weekend(datapoints[i].Timestamp) = weekend
                                            THEN Value(datapoints[i]) ELSE None],
              NotNone)

\* avg is the arithmetic mean of values (values not empty)
IsMeanOf(avg, values) == avg.den > 0 /\ avg.num * Len(values) = Sum(values) * avg.den

C2_AccessFailureIsolated ==
    (error = "assume_role"
        /\ \E i \in 1..Len(all_recommendations) :
               all_recommendations[i].key # accounts[acct])
    => pc # "crashed"

C5_FetchFailureSkipsResource == cur.raised => pc # "crashed"

\* C6: when the upload or the presigned URL fails, the notification is still
\* sent.
C6_NotifiedDespitePublishFailure ==
    error \in {"upload_file", "generate_presigned_url"} => published # <<>>

\* C7: the published summary lists, for every account and category, the
\* identifier of every flagged resource and no others, and renders a category
\* without flagged resources as "No optimizations found".
C7_SummaryReflectsReport ==
    \A m \in Range(published) :
        LET items == UNION {Range(all_recommendations[i].value[c]) :
                              i \in 1..Len(all_recommendations), c \in Categories}
            heads == {all_recommendations[i].key \o ":" : i \in 1..Len(all_recommendations)}
            empty == \E i \in 1..Len(all_recommendations), c \in Categories :
                         all_recommendations[i].value[c] = <<>>
        IN  /\ \A item \in items : ("  - " \o item) \in Range(m.lines)
            /\ \A line \in Range(m.lines) :
                   \/ line \in heads
                   \/ line \in {"  - " \o item : item \in items}
                   \/ line \in {c \o ":" : c \in Categories}
                   \/ line = "  - No optimizations found"
            /\ empty => "  - No optimizations found" \in Range(m.lines)

C10_EveryCategoryPresent ==
    /\ \A i \in 1..Len(all_recommendations) :
           DOMAIN all_recommendations[i].value = Categories
    /\ pdf # <<>> =>
           /\ Categories \subseteq Range(pdf)
           /\ (\E i \in 1..Len(all_recommendations), c \in Categories :
                   all_recommendations[i].value[c] = <<>>)
                => "- No optimizations found" \in Range(pdf)
    /\ \A r \in Range(returned) :
           /\ r = all_recommendations
           /\ \A a \in Range(accounts) : DictHas(r, a)

\* A report was returned in which an account has an empty EC2 category and a
\* non-empty RDS category.
C10_Witness ==
    /\ pc = "done"
    /\ returned # <<>>
    /\ \E i \in 1..Len(returned[1]) :
           /\ EC2_CATEGORY \in DOMAIN returned[1][i].value
           /\ returned[1][i].value[EC2_CATEGORY] = <<>>
           /\ RDS_CATEGORY \in DOMAIN returned[1][i].value
           /\ returned[1][i].value[RDS_CATEGORY] # <<>>

====
